---- MODULE Spec2Model ----
(***************************************************************************)
(* Model of the tradebot ingestion / reconciliation / signal pipeline.     *)
(*                                                                         *)
(*   core.py        CandleSeries, CandleStore                              *)
(*   data.py        KrakenClient.get_ohlc, KrakenClient._rate_limit,       *)
(*                  DataFeed.poll_once, KrakenWS                           *)
(*   tradebot.py    main (priming, backfill), verify_last5_and_fix,        *)
(*                  poll_loop                                              *)
(*   strategies.py  BreakoutStrategy                                       *)
(*   ui_chart.py    MiniChart._snapshot_1m, the position overlay           *)
(*                                                                         *)
(* Time is counted in whole minutes (a candle's timestamp is the minute    *)
(* it starts at).  Prices are counted in units of 0.001, the strategy's    *)
(* risk step.                                                              *)
(***************************************************************************)
EXTENDS Integers, Sequences, FiniteSets, TLC

VARIABLES
    \* ---- environment ----
    now,          \* wall clock, in minutes: datetime.now(utc) truncated
    ref,          \* ref_utc, the reference minute (tradebot.py:88)
    up,           \* the upstream OHLC data, minute -> candle
    revCount,     \* number of upstream revisions made so far
    \* ---- CandleStore ----
    capacity,     \* cfg.buffer, the deque maxlen
    series,       \* store.series["1m"]: sequence of candles
    \* ---- DataFeed ----
    wm,           \* feed._last_ts["1m"]
    \* ---- main(): priming and backfill ----
    mpc,          \* "prime" | "post" | "run"
    effRef,       \* eff_ref_utc
    postSince,    \* post_since
    \* ---- poll thread: poll_once ----
    ppc,          \* "idle" | "fetch" | "failed" (the fetch raised)
    pNowMin,      \* now_min of the running poll_once
    \* ---- verifier thread: verify_last5_and_fix ----
    vpc,          \* "idle" | "compare" | "patch"
    vFetched,     \* fetched[-5:]
    vMism,        \* mismatches: sequence of <<idx, candle>>
    vReport,      \* how the last finished cycle ended: "none" (no cycle yet) |
                  \* "skipped" (returned at the length guard, nothing logged) |
                  \* "OK" | "fixed" | "error" (the three log lines)
    \* ---- observers (history, not program state) ----
    provisional,  \* writers that stored a record that was provisional when written
    pollsDone,    \* 0: none since the store was last patched, 1: one poll_once
                  \* completed, 2: a further one completed with no new closed record
    pollAdded,    \* number of records the last finished poll_once appended
    corrRows,     \* the CORRECTED rows the running or last finished cycle wrote
                  \* to the corrections file
    pollHanded,   \* time of the record the last finished poll_loop iteration
                  \* passed to recorder.append, or NoTime
    stOp,         \* the last CandleStore call made directly on the store, with
                  \* its arguments, the series before it and its result
    \* ---- BreakoutStrategy ----
    blue_high,    \* self.blue_high
    blue_low,     \* self.blue_low
    active,       \* self.active: the open Position, or NoPosition
    prioritizeStop, \* PRIORITIZE_STOP_ON_TIE
    \* ---- poll thread: the strategy part of poll_loop ----
    lastClose,    \* time of the last candle handed to the strategy
    spc,          \* "idle" | "dispatch" | "manage" | "logentry" | "x1".."x4"
    scall,        \* 0, or which of the two on_new_close(c) calls is running
    curC,         \* c, the candle handed to on_new_close
    sx,           \* the arguments of the poll thread's running _exit
    sNote,        \* the note of the poll thread's running _enter
    \* ---- UI thread: on_live_price ----
    upc,          \* "idle" | "x1".."x4"
    ux,           \* the arguments of the UI thread's running _exit
    uTick,        \* the (price, ts) of the tick being handled
    \* ---- observers ----
    exitRows,     \* number of exit rows the journal holds for the position
                  \* opened last
    tickClosedAt, \* ts of the live tick whose exit cleared the position, until
                  \* the next position is opened
    \* ---- MiniChart: the position overlay ----
    pos_entry,    \* self.pos_entry: the entry price drawn, or NoPrice (None)
    \* ---- CandleSeries, deque by deque ----
    dq,           \* the eight deques: field -> sequence of the minutes of the
                  \* records its values belong to
    apc,          \* number of deques the running append has appended to, 0
                  \* when no append is running
    nextRec,      \* the minute of the record being appended, or of the next one
    \* ---- Tk thread: MiniChart._snapshot_1m ----
    snCopies,     \* the bulk copies the running snapshot has made so far
    snOut,        \* what the last finished snapshot returned, or NoSnapshot
    \* ---- Tk thread: on_close ----
    closing,      \* the nonlocal flag `closing`
    stopEvent,    \* STOP_EVENT.is_set()
    opc,          \* "idle" | "wsflag" | "wsclose" | "joinpoll" | "joinverify" |
                  \* "quit"
    closeCalls,   \* number of on_close invocations made (observer)
    stopRuns,     \* number of stop sequences begun (observer)
    \* ---- KrakenWS ----
    wsRunning,    \* self._running
    wsConn,       \* self._ws: "none" | "made" | "open" | "closed"
    wpc,          \* _run: "check" | "create" | "run" | "block" | "sleep" | "exited"
    \* ---- poll_loop and verify_loop as loops ----
    plpc,         \* "check" | "body" | "sleep" | "exited"
    vlpc,         \* "check" | "body" | "sleep" | "exited"
    \* ---- KrakenWS under any caller of start() and stop() ----
    kwRunning,    \* self._running
    kwApp,        \* self._ws: 0 (None), or the thread whose WebSocketApp it is
    kwLoop,       \* the threads start() has made: thread -> the position of
                  \* its _run, the state of the WebSocketApp it made last, the
                  \* channels subscribed on it, and whether that app replaced
                  \* an earlier one of the thread (observer)
    kwCaller,     \* the caller: "idle" | "spawn" (in start) | "close" (in stop)
    kwCalls,      \* number of start() and stop() calls made
    \* ---- KrakenClient._rate_limit ----
    rclock,       \* time.time(), in half seconds
    last_call,    \* self._last_call
    rpc,          \* thread -> "idle" | "sleep" | "set"
    rwake,        \* thread -> the time its time.sleep(wait) ends
    prevReq,      \* start of the request before the last one, or NoTime (observer)
    lastReq       \* start of the last request, or NoTime (observer)

storeVars == <<capacity, series>>
mainVars  == <<mpc, effRef, postSince>>
pollVars  == <<ppc, pNowMin>>
verVars   == <<vpc, vFetched, vMism, vReport>>
obsVars   == <<provisional, pollsDone, pollAdded, corrRows, pollHanded>>
feedVars  == <<up, revCount, storeVars, wm, mainVars, pollVars, verVars, obsVars>>
cfgVars   == <<blue_high, blue_low, prioritizeStop>>
spollVars == <<lastClose, spc, scall, curC, sx, sNote>>
uiVars    == <<upc, ux, uTick>>
sobsVars  == <<exitRows, tickClosedAt>>
chartVars == <<pos_entry>>
stratVars == <<cfgVars, active, spollVars, uiVars, sobsVars, chartVars>>

snapVars  == <<dq, apc, nextRec, snCopies, snOut>>
stopVars  == <<closing, stopEvent, opc, closeCalls, stopRuns, wsRunning, wsConn,
               wpc, plpc, vlpc>>
kwVars    == <<kwRunning, kwApp, kwLoop, kwCaller, kwCalls>>
rateVars  == <<rclock, last_call, rpc, rwake, prevReq, lastReq>>
apiVars   == <<kwVars, rateVars>>
sideVars  == <<snapVars, stopVars, apiVars>>

vars == <<now, ref, feedVars, stratVars, stOp, sideVars>>

-----------------------------------------------------------------------------
(* Bounds of the model *)

\* the clock stops advancing at this minute
MaxNow == 8
\* number of upstream revisions (late corrections of a candle) in one run
MaxRev == 1
\* the newest timestamp of the records handed to the store directly
StoreMaxTime == 3
\* the largest n asked of last_n_until
StoreMaxN == 3

(* Program constants *)

\* Config(buffer=1000)
Buffer == 1000
\* the verifier's window: fetched[-5:], s1.len() - 5
VerifyK == 5
\* since = now_min - 10 minutes
VerifyBackMin == 10
\* since_ts = eff_ref - 15 * 60
PrimeBackMin == 15
\* [-10:]
PrimeCount == 10

\* None (Optional[datetime], Optional[int])
NoTime == -1

-----------------------------------------------------------------------------
(* Candles and the upstream source *)

Fields == {"open", "high", "low", "close", "volume", "vwap", "trades"}

\* the candle upstream first publishes for minute t
BaseCandle(t) ==
    [time |-> t, open |-> 2, high |-> 3, low |-> 1, close |-> 2,
     volume |-> 1, vwap |-> 2, trades |-> 1]

\* the values a late upstream revision may give a field
Revisions ==
    { <<"high", 4>>, <<"vwap", 3>>, <<"trades", 0>> }

Max(a, b) == IF a >= b THEN a ELSE b
Min(a, b) == IF a <= b THEN a ELSE b

\* s[-n:]
LastN(s, n) ==
    IF Len(s) <= n THEN s ELSE SubSeq(s, Len(s) - n + 1, Len(s))

\* KrakenClient.get_ohlc(pair, 1, since): every candle upstream has from
\* `since` on, oldest first; the last one is the minute in progress.
\* Upstream's history begins at minute 2.
GetOhlc(u, nw, since) ==
    LET lo == Max(since, 2)
    IN  IF lo > nw THEN << >>
        ELSE [i \in 1..(nw - lo + 1) |-> u[lo + i - 1]]

\* a filter that does not look at the trade count
IsClosedValidNoTrades(c, nowMin) ==
    c.time < nowMin /\ c.volume > 0

\* (c.time < now_min) and (c.trades > 0) and (c.volume > 0)
IsClosedValid(c, nowMin) ==
    c.time < nowMin /\ c.trades > 0 /\ c.volume > 0

ClosedValid(cs, nowMin) ==
    SelectSeq(cs, LAMBDA c : IsClosedValid(c, nowMin))

-----------------------------------------------------------------------------
(* CandleSeries / CandleStore *)

\* a series that grows past its capacity instead of dropping its oldest record
SeriesAppendNoEvict(s, c, cap) == Append(s, c)

\* CandleSeries.append: eight deque appends, each deque with maxlen=capacity
SeriesAppend(s, c, cap) ==
    IF Len(s) < cap THEN Append(s, c) ELSE Append(Tail(s), c)

\* CandleSeries.last_time
LastTime(s) == IF Len(s) = 0 THEN NoTime ELSE s[Len(s)].time

RECURSIVE AppendAll(_, _, _)
\* for c in primed: store.append("1m", c)
AppendAll(s, cs, cap) ==
    IF Len(cs) = 0 THEN s
    ELSE AppendAll(SeriesAppend(s, Head(cs), cap), Tail(cs), cap)

RECURSIVE Reverse(_)
\* list(reversed(out))
Reverse(s) == IF Len(s) = 0 THEN << >> ELSE Append(Reverse(Tail(s)), Head(s))

RECURSIVE ScanBack(_, _, _, _, _)
\* the loop of last_n_until: i runs from the newest slot down, a record with
\* time <= until is taken, the loop breaks at n records (core.py:90-98)
ScanBack(s, i, until, n, out) ==
    IF i = 0 \/ Len(out) = n THEN out
    ELSE IF s[i].time <= until
         THEN ScanBack(s, i - 1, until, n, Append(out, s[i]))
         ELSE ScanBack(s, i - 1, until, n, out)

\* CandleStore.last_n_until(tf, until_utc, n)
LastNUntil(s, until, n) ==
    IF Len(s) = 0 \/ n <= 0 THEN << >>
    ELSE Reverse(ScanBack(s, Len(s), until, n, << >>))

-----------------------------------------------------------------------------
(* DataFeed.poll_once *)

\* a feed that also takes a candle as old as the last stored one
AcceptsNotOlder(last, c) == last = NoTime \/ c.time >= last

\* (last_time is None) or (c.time > last_time)
Accepts(last, c) == last = NoTime \/ c.time > last

RECURSIVE AppendNewer(_, _, _)
\* the loop of poll_once over the safe candles; last_time follows the appends
AppendNewer(s, cs, cap) ==
    IF Len(cs) = 0 THEN s
    ELSE IF Accepts(LastTime(s), Head(cs))
         THEN AppendNewer(SeriesAppend(s, Head(cs), cap), Tail(cs), cap)
         ELSE AppendNewer(s, Tail(cs), cap)

\* poll_loop after poll_once: ct = s1.times[-1] is handed on when
\* (last_written_time is None) or (ct > last_written_time); NoTime when the
\* iteration hands nothing on
Handed(s, lastWritten) ==
    IF Len(s) > 0 /\ (lastWritten = NoTime \/ LastTime(s) > lastWritten)
    THEN LastTime(s) ELSE NoTime

-----------------------------------------------------------------------------
(* verify_last5_and_fix *)

\* the fields the verifier compares (tradebot.py:261-267)
ComparedFields == {"time", "open", "high", "low", "close", "volume", "trades"}

\* _neq on each compared field, int() != int() on trades.  The tolerance
\* 1e-9 is below one unit of every field, so _neq is inequality here.
Differs(st, a) == \E f \in ComparedFields : st[f] # a[f]

\* mismatches: the (idx, a) pairs of the last 5 slots that differ
Mismatches(s, fetched) ==
    LET n    == Len(s)
        idxs == [i \in 1..VerifyK |-> n - VerifyK + i]
        bad  == SelectSeq([i \in 1..VerifyK |-> i],
                          LAMBDA i : Differs(s[idxs[i]], fetched[i]))
    IN  [k \in 1..Len(bad) |-> <<idxs[bad[k]], fetched[bad[k]]>>]

\* a cycle that writes one audit row, for its last mismatch only
CorrectionRowsLastOnly(ms) ==
    IF Len(ms) = 0 THEN << >> ELSE << ms[Len(ms)][2] >>

\* w.writerow([a.time, a.open, ..., a.trades, "CORRECTED", "1m"]) for every
\* mismatch: the rows, each the fetched record it carries
CorrectionRows(ms) == [k \in 1..Len(ms) |-> ms[k][2]]

RECURSIVE PatchAppend(_, _)
\* a correction that adds the fetched record at the tail instead of
\* overwriting the slot
PatchAppend(s, ms) ==
    IF Len(ms) = 0 THEN s
    ELSE PatchAppend(Append(s, Head(ms)[2]), Tail(ms))

RECURSIVE Patch(_, _)
\* s1.opens[idx] = a.open ... s1.times[idx] = a.time, for every mismatch
Patch(s, ms) ==
    IF Len(ms) = 0 THEN s
    ELSE Patch([s EXCEPT ![Head(ms)[1]] = Head(ms)[2]], Tail(ms))


-----------------------------------------------------------------------------
(* BreakoutStrategy: constants, Position, the pure parts of its handlers *)

\* RISK_STEP_STR = "0.001", in price units of 0.001
RiskStep == 1
\* RISK_REWARD = Decimal("2")
RiskReward == 2
\* MAX_CONCURRENT_POS
MaxConcurrentPos == 1
\* TRADE_CAPITAL
TradeCapital == 100

\* None (Optional[Decimal])
NoLevel == -1
NoPrice == -1

\* self.active = None
NoPosition ==
    [id |-> 0, side |-> "none", entry |-> NoPrice, stop |-> NoPrice,
     target |-> NoPrice, capital |-> 0, opened_at |-> NoTime,
     exit_price |-> NoPrice, closed_at |-> NoTime, outcome |-> "none"]

\* no _exit running
NoExit == [outcome |-> "none", price |-> NoPrice, ts |-> NoTime, pid |-> 0]
NoTick == [price |-> NoPrice, ts |-> NoTime]
NoCandle == [time |-> NoTime, open |-> 0, high |-> 0, low |-> 0, close |-> 0,
             volume |-> 0, vwap |-> 0, trades |-> 0]

\* stop and target of an entry (strategies.py:172-179)
\* a target one risk step from the entry, whatever the risk/reward multiple
EntryTargetOneStep(side, entry) ==
    IF side = "long" THEN entry + RiskStep ELSE entry - RiskStep

EntryStop(side, entry) ==
    IF side = "long" THEN entry - RiskStep ELSE entry + RiskStep
EntryTarget(side, entry) ==
    IF side = "long" THEN entry + RiskReward * RiskStep
    ELSE entry - RiskReward * RiskStep

\* the identity of the Position object made by call k of on_new_close(c), c.time = t
PosId(t, k) == 2 * t + k - 1

\* Position(side=side, entry=entry, stop=stop, target=target, capital, opened_at=ts)
NewPosition(id, side, price, ts) ==
    [id |-> id, side |-> side, entry |-> price,
     stop |-> EntryStop(side, price), target |-> EntryTarget(side, price),
     capital |-> TradeCapital, opened_at |-> ts,
     exit_price |-> NoPrice, closed_at |-> NoTime, outcome |-> "none"]

\* entry rules that look at the close only
EntryRuleCloseOnly(c, bh, bl) ==
    IF c.close > bh THEN <<"long", c.close, "CLOSE">>
    ELSE IF c.close < bl THEN <<"short", c.close, "CLOSE">>
    ELSE <<"none", NoPrice, "">>

\* the entry rules of on_new_close (strategies.py:148-161): <<side, price, basis>>
\* or <<"none", ...>> when no rule fires
EntryRule(c, bh, bl) ==
    IF c.open > bh \/ c.close > bh
    THEN IF c.open > bh THEN <<"long", c.open, "OPEN">>
                        ELSE <<"long", c.close, "CLOSE">>
    ELSE IF c.open < bl \/ c.close < bl
    THEN IF c.open < bl THEN <<"short", c.open, "OPEN">>
                        ELSE <<"short", c.close, "CLOSE">>
    ELSE <<"none", NoPrice, "">>

\* self.active is truthy
IsActive(a) == a # NoPosition

\* on_new_close without its reference-time guard
CloseBranchNoRef(c, rf, bh, bl, a) ==
    IF bh = NoLevel \/ bl = NoLevel THEN "return"
    ELSE IF IsActive(a) THEN "manage"
    ELSE IF MaxConcurrentPos <= 0 THEN "return"
    ELSE IF EntryRule(c, bh, bl)[1] = "none" THEN "return"
    ELSE "enter"

\* on_new_close without its `if self.active:` branch
CloseBranchUnguarded(c, rf, bh, bl, a) ==
    IF c.time < rf THEN "return"
    ELSE IF bh = NoLevel \/ bl = NoLevel THEN "return"
    ELSE IF MaxConcurrentPos <= 0 THEN "return"
    ELSE IF EntryRule(c, bh, bl)[1] = "none" THEN "return"
    ELSE "enter"

\* the branch on_new_close takes (strategies.py:131-161)
CloseBranch(c, rf, bh, bl, a) ==
    IF c.time < rf THEN "return"
    ELSE IF bh = NoLevel \/ bl = NoLevel THEN "return"
    ELSE IF IsActive(a) THEN "manage"
    ELSE IF MaxConcurrentPos <= 0 THEN "return"
    ELSE IF EntryRule(c, bh, bl)[1] = "none" THEN "return"
    ELSE "enter"

\* the guards of _enter (strategies.py:167-170)
EnterGuard(a) == ~IsActive(a) /\ MaxConcurrentPos >= 1

\* a target test that every record passes
HitTargetAlways(p, c) == TRUE

\* hit_stop / hit_target of _manage_position for candle c
HitStop(p, c) ==
    IF p.side = "long" THEN c.low <= p.stop ELSE c.high >= p.stop
HitTarget(p, c) ==
    IF p.side = "long" THEN c.high >= p.target ELSE c.low <= p.target

\* _manage_position honouring the target first, whatever the tie-break flag
ManageDecisionTargetFirst(p, c, stopFirst) ==
    LET loss == [outcome |-> "loss", price |-> p.stop, ts |-> c.time, pid |-> p.id]
        win  == [outcome |-> "win", price |-> p.target, ts |-> c.time, pid |-> p.id]
    IN  IF HitTarget(p, c) THEN win
        ELSE IF HitStop(p, c) THEN loss ELSE NoExit

\* the _exit call _manage_position makes, or NoExit (strategies.py:219-233)
ManageDecision(p, c, stopFirst) ==
    LET loss == [outcome |-> "loss", price |-> p.stop, ts |-> c.time, pid |-> p.id]
        win  == [outcome |-> "win", price |-> p.target, ts |-> c.time, pid |-> p.id]
    IN  IF stopFirst
        THEN IF HitStop(p, c) THEN loss
             ELSE IF HitTarget(p, c) THEN win ELSE NoExit
        ELSE IF HitTarget(p, c) THEN win
             ELSE IF HitStop(p, c) THEN loss ELSE NoExit

\* on_live_price exiting at the price of the tick
LiveDecisionAtTick(p, price, ts) ==
    LET loss == [outcome |-> "loss", price |-> price, ts |-> ts, pid |-> p.id]
        win  == [outcome |-> "win", price |-> price, ts |-> ts, pid |-> p.id]
    IN  IF p.side = "long"
        THEN IF price >= p.target THEN win
             ELSE IF price <= p.stop THEN loss ELSE NoExit
        ELSE IF price <= p.target THEN win
             ELSE IF price >= p.stop THEN loss ELSE NoExit

\* the _exit call on_live_price makes, or NoExit (strategies.py:109-122)
LiveDecision(p, price, ts) ==
    LET loss == [outcome |-> "loss", price |-> p.stop, ts |-> ts, pid |-> p.id]
        win  == [outcome |-> "win", price |-> p.target, ts |-> ts, pid |-> p.id]
    IN  IF p.side = "long"
        THEN IF price >= p.target THEN win
             ELSE IF price <= p.stop THEN loss ELSE NoExit
        ELSE IF price <= p.target THEN win
             ELSE IF price >= p.stop THEN loss ELSE NoExit

\* the level pair set_blue is given, and the prices around it that candles
\* and ticks are drawn from: the level, one risk step off it, and far off it
LevelPairs == { <<5, 5>> }
BodyPrices == {4, 5, 6}
Far == [low |-> 2, high |-> 8]
TickPrices == BodyPrices \cup {Far.low, Far.high}

\* the candles of minute t the poll loop may hand to the strategy: any open
\* and close, the high and the low either at the body or far off it
StratCandles(t) ==
    { [time |-> t, open |-> o, high |-> h, low |-> l, close |-> cl,
       volume |-> 1, vwap |-> cl, trades |-> 1] :
      <<o, h, l, cl>> \in { q \in BodyPrices \X TickPrices \X TickPrices \X BodyPrices :
                              /\ q[2] \in {Max(q[1], q[4]), Far.high}
                              /\ q[3] \in {Min(q[1], q[4]), Far.low} } }

-----------------------------------------------------------------------------
(* Initial states: after Config, CandleStore, KrakenClient, DataFeed and    *)
(* BreakoutStrategy are built                                              *)

StartNows == {7}
RefTimes  == {5}

\* no CandleStore call made yet
NoOp ==
    [kind |-> "none", rec |-> NoCandle, before |-> << >>, until |-> NoTime,
     n |-> 0, out |-> << >>]

\* the list of deques in the order CandleSeries.append appends to them
DequeOrder ==
    <<"times", "opens", "highs", "lows", "closes", "vols", "vwaps", "trades">>
\* the deques _snapshot_1m copies, in the order it copies them
SnapOrder == <<"times", "opens", "highs", "lows", "closes">>

\* no snapshot taken yet
NoSnapshot == << >>

\* CandleSeries.__init__: eight empty deques; no append, no snapshot running
SnapStart ==
    /\ dq = [f \in {DequeOrder[i] : i \in 1..Len(DequeOrder)} |-> << >>]
    /\ apc = 0
    /\ nextRec = 1
    /\ snCopies = << >>
    /\ snOut = NoSnapshot

\* main() up to root.mainloop(): closing = False, STOP_EVENT clear, ws.start()
\* done, poll_thread and verify_thread started
StopStart ==
    /\ closing = FALSE
    /\ stopEvent = FALSE
    /\ opc = "idle"
    /\ closeCalls = 0
    /\ stopRuns = 0
    /\ wsRunning = TRUE
    /\ wsConn = "none"
    /\ wpc = "check"
    /\ plpc = "check"
    /\ vlpc = "check"

\* number of start() and stop() calls made on one KrakenWS
MaxWsCalls == 3
\* number of threads start() can make
MaxWsLoops == 2

LoopIds == 1..MaxWsLoops
Channels == {"trade", "ticker"}

\* a thread that start() has not made yet
NoLoop == [pc |-> "none", conn |-> "none", subs |-> {}, again |-> FALSE]

\* KrakenWS.__init__ (data.py:162-173): _ws = None, _running = False, no thread
KwStart ==
    /\ kwRunning = FALSE
    /\ kwApp = 0
    /\ kwLoop = [i \in LoopIds |-> NoLoop]
    /\ kwCaller = "idle"
    /\ kwCalls = 0

\* the clock stops advancing at this time (half seconds)
MaxRClock == 12
\* KrakenClient(min_interval=2.5), in half seconds
MinInterval == 5
\* the threads that share the client: poll_loop, and verify_loop or a
\* post-close verify timer
RateThreads == {"poll", "verify"}

\* KrakenClient.__init__ (data.py:28-29): _last_call = 0.0; the clock is past
\* min_interval when the first request is made
RateStart ==
    /\ rclock = MinInterval
    /\ last_call = 0
    /\ rpc = [t \in RateThreads |-> "idle"]
    /\ rwake = [t \in RateThreads |-> 0]
    /\ prevReq = NoTime
    /\ lastReq = NoTime

\* the feed, the startup code and the verifier before main() has run them
FeedIdle ==
    /\ up = [t \in 1..(MaxNow + 1) |-> BaseCandle(t)]
    /\ revCount = 0
    /\ wm = NoTime
    /\ mpc = "prime"
    /\ effRef = NoTime
    /\ postSince = NoTime
    /\ ppc = "idle"
    /\ pNowMin = NoTime
    /\ vpc = "idle"
    /\ vFetched = << >>
    /\ vMism = << >>
    /\ vReport = "none"
    /\ provisional = {}
    /\ pollsDone = 0
    /\ pollAdded = 0
    /\ corrRows = << >>
    /\ pollHanded = NoTime
    /\ SnapStart
    /\ StopStart
    /\ KwStart
    /\ RateStart

FeedStart ==
    /\ capacity = Buffer
    /\ series = << >>
    /\ FeedIdle
    /\ stOp = NoOp

StratStart ==
    /\ blue_high = NoLevel
    /\ blue_low = NoLevel
    /\ active = NoPosition
    /\ spc = "idle"
    /\ scall = 0
    /\ curC = NoCandle
    /\ sx = NoExit
    /\ sNote = ""
    /\ upc = "idle"
    /\ ux = NoExit
    /\ uTick = NoTick
    /\ exitRows = 0
    /\ tickClosedAt = NoTime
    /\ pos_entry = NoPrice

InitFeed ==
    /\ now \in StartNows
    /\ ref \in RefTimes
    /\ FeedStart
    /\ StratStart
    /\ prioritizeStop = TRUE
    /\ lastClose = NoTime

-----------------------------------------------------------------------------
(* Environment *)

\* a minute passes
Tick ==
    /\ now < MaxNow
    /\ now' = now + 1
    /\ UNCHANGED <<ref, feedVars, stratVars>>
    /\ UNCHANGED <<stOp, sideVars>>

\* upstream revises one field of one of its two newest candles.  PollBegin
\* reads only the clock, so a revision made while poll_once waits for its
\* fetch is the same as one made before the call began.
Revise ==
    /\ revCount < MaxRev
    /\ ppc = "idle"
    /\ \E t \in Max(1, now - 1)..now, r \in Revisions :
          /\ up[t][r[1]] # r[2]
          /\ up' = [up EXCEPT ![t][r[1]] = r[2]]
    /\ revCount' = revCount + 1
    /\ UNCHANGED <<now, ref, storeVars, wm, mainVars, pollVars, verVars, obsVars,
                   stratVars>>
    /\ UNCHANGED <<stOp, sideVars>>

\* the writers' observer: did this write store a provisional record?
Noted(who, cs) ==
    IF \E i \in 1..Len(cs) : ~IsClosedValid(cs[i], now)
    THEN provisional \cup {who} ELSE provisional

-----------------------------------------------------------------------------
(* main(): PRIME and POST-REF backfill (tradebot.py:92-122) *)

\* primed: the last 10 fetched candles with c.time <= eff_ref_utc
Primed(u, nw, eff) ==
    LastN(SelectSeq(GetOhlc(u, nw, eff - PrimeBackMin), LAMBDA c : c.time <= eff),
          PrimeCount)

\* post: the fetched candles with c.time > post_since
PostRef(u, nw, since) ==
    SelectSeq(GetOhlc(u, nw, since), LAMBDA c : c.time > since)

Prime ==
    /\ mpc = "prime"
    /\ LET eff    == Min(ref, now)
           primed == Primed(up, now, eff)
       IN  /\ effRef' = eff
           /\ series' = AppendAll(series, primed, capacity)
           /\ postSince' = IF Len(primed) > 0 THEN primed[Len(primed)].time ELSE eff
           /\ provisional' = Noted("prime", primed)
    /\ mpc' = "post"
    /\ UNCHANGED <<now, ref, up, revCount, capacity, wm, pollVars, verVars,
                   pollsDone, pollAdded, corrRows, pollHanded, stratVars>>
    /\ UNCHANGED <<stOp, sideVars>>

Backfill ==
    /\ mpc = "post"
    /\ LET post == PostRef(up, now, postSince)
           s2   == AppendAll(series, post, capacity)
       IN  /\ series' = s2
           /\ wm' = IF LastTime(s2) # NoTime THEN LastTime(s2) ELSE effRef
           /\ provisional' = Noted("post", post)
           /\ lastClose' = LastTime(s2)
    /\ mpc' = "run"
    /\ UNCHANGED <<now, ref, up, revCount, capacity, effRef, postSince, pollVars,
                   verVars, pollsDone, pollAdded, corrRows, pollHanded>>
    /\ UNCHANGED <<cfgVars, active, spc, scall, curC, sx, sNote, uiVars, sobsVars,
                   chartVars>>
    /\ UNCHANGED <<stOp, sideVars>>

-----------------------------------------------------------------------------
(* poll thread: feed.poll_once() (data.py:102-122) *)

\* now_min = datetime.now(utc).replace(second=0, microsecond=0)
PollBegin ==
    /\ mpc = "run"
    /\ ppc = "idle"
    /\ pNowMin' = now
    /\ ppc' = "fetch"
    /\ UNCHANGED <<now, ref, up, revCount, storeVars, wm, mainVars, verVars,
                   obsVars, stratVars>>
    /\ UNCHANGED <<stOp, sideVars>>

\* the fetch, the filter, the appends and the watermark; then the lines of
\* poll_loop that follow the call: the newest slot is passed to the recorder
\* when its time is past last_written_time (tradebot.py:390-401)
PollFetch ==
    /\ ppc = "fetch"
    /\ LET candles == GetOhlc(up, now, wm)
           safe    == ClosedValid(candles, pNowMin)
           s2      == AppendNewer(series, safe, capacity)
           added   == SelectSeq(safe, LAMBDA c : Accepts(LastTime(series), c))
           noNew   == \A i \in 1..Len(candles) :
                         IsClosedValid(candles[i], now)
                            => /\ LastTime(series) # NoTime
                               /\ candles[i].time <= LastTime(series)
       IN  /\ series' = s2
           /\ wm' = IF LastTime(s2) # NoTime THEN LastTime(s2) ELSE wm
           /\ provisional' = Noted("poll", added)
           /\ pollsDone' = IF pollsDone >= 1 /\ noNew THEN 2 ELSE 1
           /\ pollAdded' = Len(added)
           /\ pollHanded' = Handed(s2, lastClose)
           /\ lastClose' = IF Handed(s2, lastClose) # NoTime
                            THEN Handed(s2, lastClose) ELSE lastClose
    /\ ppc' = "idle"
    /\ UNCHANGED <<now, ref, up, revCount, capacity, mainVars, pNowMin, verVars,
                   corrRows>>
    /\ UNCHANGED <<cfgVars, active, spc, scall, curC, sx, sNote, uiVars, sobsVars,
                   chartVars>>
    /\ UNCHANGED <<stOp, sideVars>>

\* a fetch error that escapes poll_loop and ends the poll thread
PollFetchErrorFatal ==
    /\ ppc = "fetch"
    /\ ppc' = "dead"
    /\ UNCHANGED <<now, ref, up, revCount, storeVars, wm, mainVars, pNowMin,
                   verVars, obsVars, stratVars>>
    /\ UNCHANGED <<stOp, sideVars>>

\* client.get_ohlc raises inside poll_once (data.py:62-69, 107): nothing of
\* poll_once after the fetch runs, and poll_loop's `except Exception` prints
\* "poll error" (tradebot.py:437-439)
PollFetchError ==
    /\ ppc = "fetch"
    /\ ppc' = "failed"
    /\ UNCHANGED <<now, ref, up, revCount, storeVars, wm, mainVars, pNowMin,
                   verVars, obsVars, stratVars>>
    /\ UNCHANGED <<stOp, sideVars>>

\* time.sleep(8), then `while not STOP_EVENT.is_set()` and the next
\* feed.poll_once() begins (tradebot.py:386-388, 439)
PollRetry ==
    /\ ppc = "failed"
    /\ ~stopEvent
    /\ pNowMin' = now
    /\ ppc' = "fetch"
    /\ UNCHANGED <<now, ref, up, revCount, storeVars, wm, mainVars, verVars,
                   obsVars, stratVars>>
    /\ UNCHANGED <<stOp, sideVars>>

-----------------------------------------------------------------------------
(* verifier thread: verify_last5_and_fix (tradebot.py:237-291) *)

\* lines 239-247: now_min, the fetch, the closed/valid filter, [-5:]
VerifyFetch ==
    /\ mpc = "run"
    /\ vpc = "idle"
    /\ vFetched' = LastN(ClosedValid(GetOhlc(up, now, now - VerifyBackMin), now),
                         VerifyK)
    /\ vpc' = "compare"
    /\ corrRows' = << >>
    /\ UNCHANGED <<now, ref, up, revCount, storeVars, wm, mainVars, pollVars,
                   vMism, vReport, provisional, pollsDone, pollAdded, pollHanded,
                   stratVars>>
    /\ UNCHANGED <<stOp, sideVars>>

\* a fetch error that escapes the cycle and ends the verifier
VerifyFetchErrorFatal ==
    /\ mpc = "run"
    /\ vpc = "idle"
    /\ vpc' = "dead"
    /\ vReport' = "error"
    /\ UNCHANGED <<now, ref, up, revCount, storeVars, wm, mainVars, pollVars,
                   vFetched, vMism, obsVars, stratVars>>
    /\ UNCHANGED <<stOp, sideVars>>

\* lines 290-291: the fetch raises; the cycle logs "verify error" and ends
VerifyFetchError ==
    /\ mpc = "run"
    /\ vpc = "idle"
    /\ vReport' = "error"
    /\ UNCHANGED <<now, ref, up, revCount, storeVars, wm, mainVars, pollVars,
                   vpc, vFetched, vMism, obsVars, stratVars>>
    /\ UNCHANGED <<stOp, sideVars>>

\* a comparison without the length guard: it pairs as many slots as both
\* sides have
VerifyCompareNoGuard ==
    /\ vpc = "compare"
    /\ LET m   == Min(VerifyK, Min(Len(series), Len(vFetched)))
           bad == SelectSeq([i \in 1..m |-> i],
                            LAMBDA i : Differs(series[Len(series) - m + i],
                                               vFetched[Len(vFetched) - m + i]))
           ms  == [k \in 1..Len(bad) |-> <<Len(series) - m + bad[k],
                                           vFetched[Len(vFetched) - m + bad[k]]>>]
       IN  IF Len(ms) = 0
           THEN /\ vpc' = "idle"
                /\ vMism' = << >>
                /\ vFetched' = << >>
                /\ vReport' = "OK"
           ELSE /\ vpc' = "patch"
                /\ vMism' = ms
                /\ vFetched' = vFetched
                /\ vReport' = vReport
    /\ UNCHANGED <<now, ref, up, revCount, storeVars, wm, mainVars, pollVars,
                   obsVars, stratVars>>
    /\ UNCHANGED <<stOp, sideVars>>

\* lines 249-272: the length guard and the comparison
VerifyCompare ==
    /\ vpc = "compare"
    /\ IF Len(series) < VerifyK \/ Len(vFetched) < VerifyK
       THEN /\ vpc' = "idle"
            /\ vMism' = << >>
            /\ vFetched' = << >>
            /\ vReport' = "skipped"
       ELSE LET ms == Mismatches(series, vFetched)
            IN  IF Len(ms) = 0
                THEN /\ vpc' = "idle"
                     /\ vMism' = << >>
                     /\ vFetched' = << >>
                     /\ vReport' = "OK"
                ELSE /\ vpc' = "patch"
                     /\ vMism' = ms
                     /\ vFetched' = vFetched
                     /\ vReport' = vReport
    /\ UNCHANGED <<now, ref, up, revCount, storeVars, wm, mainVars, pollVars,
                   obsVars, stratVars>>
    /\ UNCHANGED <<stOp, sideVars>>

\* lines 274-289: overwrite every mismatching slot
VerifyPatch ==
    /\ vpc = "patch"
    /\ series' = Patch(series, vMism)
    /\ provisional' = Noted("verify", [k \in 1..Len(vMism) |-> vMism[k][2]])
    /\ pollsDone' = 0
    /\ pollAdded' = pollAdded
    /\ pollHanded' = pollHanded
    /\ corrRows' = CorrectionRows(vMism)
    /\ vpc' = "idle"
    /\ vMism' = << >>
    /\ vFetched' = << >>
    /\ vReport' = "fixed"
    /\ UNCHANGED <<now, ref, up, revCount, capacity, wm, mainVars, pollVars,
                   stratVars>>
    /\ UNCHANGED <<stOp, sideVars>>

NextFeed ==
    \/ Tick
    \/ Revise
    \/ Prime
    \/ Backfill
    \/ PollBegin
    \/ PollFetch
    \/ PollFetchError
    \/ PollRetry
    \/ VerifyFetch
    \/ VerifyFetchError
    \/ VerifyCompare
    \/ VerifyPatch

SpecFeed == InitFeed /\ [][NextFeed]_vars

-----------------------------------------------------------------------------
(* CandleStore on its own: a caller appends records and asks last_n_until.  *)
(* CandleStore.append takes whatever record it is given (core.py:55-63,      *)
(* 78-79), so the records are any of a small pool.                          *)

\* ring capacities (Config.buffer) small enough to be reached
StoreCaps == {2, 3}

\* a record of minute t whose seven other fields all carry the mark v
StoreCandle(t, v) ==
    [time |-> t, open |-> v, high |-> v, low |-> v, close |-> v,
     volume |-> v, vwap |-> v, trades |-> v]

StoreCandles == { StoreCandle(t, v) : t \in 1..StoreMaxTime, v \in {1, 2} }

InitStore ==
    /\ now \in StartNows
    /\ ref \in RefTimes
    /\ capacity \in StoreCaps
    /\ series = << >>
    /\ FeedIdle
    /\ stOp = NoOp
    /\ StratStart
    /\ prioritizeStop = TRUE
    /\ lastClose = NoTime

\* store.append("1m", c)
StoreAppend ==
    /\ \E c \in StoreCandles :
          /\ series' = SeriesAppend(series, c, capacity)
          /\ stOp' = [NoOp EXCEPT !.kind = "append", !.rec = c, !.before = series]
    /\ UNCHANGED <<now, ref, up, revCount, capacity, wm, mainVars, pollVars,
                   verVars, obsVars, stratVars, sideVars>>

\* store.last_n_until("1m", until, n)
StoreQuery ==
    /\ \E until \in 0..(StoreMaxTime + 1), n \in (-1)..StoreMaxN :
          stOp' = [NoOp EXCEPT !.kind = "query", !.until = until, !.n = n,
                               !.before = series,
                               !.out = LastNUntil(series, until, n)]
    /\ UNCHANGED <<now, ref, feedVars, stratVars, sideVars>>

NextStore ==
    \/ StoreAppend
    \/ StoreQuery

SpecStore == InitStore /\ [][NextStore]_vars

-----------------------------------------------------------------------------
(* The renderer's snapshot against a running append.  CandleSeries.append is *)
(* eight deque appends (core.py:56-63) and _snapshot_1m is five bulk copies  *)
(* (ui_chart.py:242-246), made by two threads with no lock: a step is one    *)
(* deque append or one list(deque).  The record of minute m is written m in  *)
(* every deque, so a value tells which record it belongs to.                 *)

\* number of records the poll thread appends
MaxSnapRec == 3

\* cutoff = self.anchor_utc - timedelta(minutes=9), as a minute
SnapCutoff == 2

\* the start index of the anchor window: the first i with times[i] >= cutoff,
\* the first slot when there is none (ui_chart.py:260-266)
AnchorStart(times, cutoff) ==
    LET hits == {i \in 1..Len(times) : times[i] >= cutoff}
    IN  IF hits = {} THEN 1
        ELSE CHOOSE i \in hits : \A j \in hits : i <= j

\* ui_chart.py:249-274 on the five copies: n = min of the lengths, every
\* copy cut to its last n, then all sliced from the anchor window's start
Normalize(copies) ==
    LET lens == {Len(copies[k]) : k \in 1..Len(copies)}
        n    == CHOOSE m \in lens : \A l \in lens : m <= l
        cut  == [k \in 1..Len(copies) |-> LastN(copies[k], n)]
        st   == AnchorStart(cut[1], SnapCutoff)
    IN  IF n <= 0 THEN [k \in 1..Len(copies) |-> << >>]
        ELSE [k \in 1..Len(copies) |-> SubSeq(cut[k], st, n)]

\* one deque append of CandleSeries.append(c); the eighth ends the call
AppendStep ==
    /\ nextRec <= MaxSnapRec
    /\ LET f == DequeOrder[apc + 1]
       IN  dq' = [dq EXCEPT ![f] = SeriesAppend(dq[f], nextRec, capacity)]
    /\ IF apc + 1 = Len(DequeOrder)
       THEN apc' = 0 /\ nextRec' = nextRec + 1
       ELSE apc' = apc + 1 /\ nextRec' = nextRec
    /\ UNCHANGED <<now, ref, feedVars, stratVars, stOp, apiVars, snCopies, snOut, stopVars>>

\* one list(s.<deque>) of _snapshot_1m
SnapCopy ==
    /\ Len(snCopies) < Len(SnapOrder)
    /\ snCopies' = Append(snCopies, dq[SnapOrder[Len(snCopies) + 1]])
    /\ UNCHANGED <<now, ref, feedVars, stratVars, stOp, apiVars, dq, apc, nextRec, snOut,
                   stopVars>>

\* the rest of _snapshot_1m, on its local copies
SnapFinish ==
    /\ Len(snCopies) = Len(SnapOrder)
    /\ snOut' = Normalize(snCopies)
    /\ snCopies' = << >>
    /\ UNCHANGED <<now, ref, feedVars, stratVars, stOp, apiVars, dq, apc, nextRec, stopVars>>

NextSnap ==
    \/ AppendStep
    \/ SnapCopy
    \/ SnapFinish

SpecSnap == InitStore /\ [][NextSnap]_vars

-----------------------------------------------------------------------------
(* Shutdown: on_close on the Tk thread (tradebot.py:494-520), KrakenWS.stop  *)
(* and KrakenWS._run (data.py:184-191, 254-273), and poll_loop and           *)
(* verify_loop as loops on STOP_EVENT (tradebot.py:387, 439-441, 476-481).   *)

\* number of times on_close is invoked
MaxCloseCalls == 2

\* an on_close that does not look at its `closing` flag
OnCloseBeginNoFlag ==
    /\ opc = "idle"
    /\ closeCalls < MaxCloseCalls
    /\ closeCalls' = closeCalls + 1
    /\ closing' = TRUE
    /\ stopEvent' = TRUE
    /\ stopRuns' = stopRuns + 1
    /\ opc' = "wsflag"
    /\ UNCHANGED <<now, ref, feedVars, stratVars, stOp, apiVars, snapVars, wsRunning, wsConn,
                   wpc, plpc, vlpc>>

\* on_close is invoked: `if closing: return`, else closing = True and
\* STOP_EVENT.set()
OnCloseBegin ==
    /\ opc = "idle"
    /\ closeCalls < MaxCloseCalls
    /\ closeCalls' = closeCalls + 1
    /\ IF closing
       THEN UNCHANGED <<closing, stopEvent, stopRuns, opc>>
       ELSE /\ closing' = TRUE
            /\ stopEvent' = TRUE
            /\ stopRuns' = stopRuns + 1
            /\ opc' = "wsflag"
    /\ UNCHANGED <<now, ref, feedVars, stratVars, stOp, apiVars, snapVars, wsRunning, wsConn,
                   wpc, plpc, vlpc>>

\* ws.stop(): with self._lock: self._running = False
WsStopFlag ==
    /\ opc = "wsflag"
    /\ wsRunning' = FALSE
    /\ opc' = "wsclose"
    /\ UNCHANGED <<now, ref, feedVars, stratVars, stOp, apiVars, snapVars, closing, stopEvent,
                   closeCalls, stopRuns, wsConn, wpc, plpc, vlpc>>

\* ws.stop(): if self._ws: self._ws.close().  Closing the connection ends a
\* running run_forever and keeps one not yet begun from connecting.
WsStopClose ==
    /\ opc = "wsclose"
    /\ wsConn' = IF wsConn = "none" THEN "none" ELSE "closed"
    /\ opc' = "joinpoll"
    /\ UNCHANGED <<now, ref, feedVars, stratVars, stOp, apiVars, snapVars, closing, stopEvent,
                   closeCalls, stopRuns, wsRunning, wpc, plpc, vlpc>>

\* poll_thread.join(timeout=1.5): returns when the thread has exited or the
\* timeout has passed
JoinPoll ==
    /\ opc = "joinpoll"
    /\ opc' = "joinverify"
    /\ UNCHANGED <<now, ref, feedVars, stratVars, stOp, apiVars, snapVars, closing, stopEvent,
                   closeCalls, stopRuns, wsRunning, wsConn, wpc, plpc, vlpc>>

\* verify_thread.join(timeout=1.5)
JoinVerify ==
    /\ opc = "joinverify"
    /\ opc' = "quit"
    /\ UNCHANGED <<now, ref, feedVars, stratVars, stOp, apiVars, snapVars, closing, stopEvent,
                   closeCalls, stopRuns, wsRunning, wsConn, wpc, plpc, vlpc>>

\* root.quit(); on_close returns
Quit ==
    /\ opc = "quit"
    /\ opc' = "idle"
    /\ UNCHANGED <<now, ref, feedVars, stratVars, stOp, apiVars, snapVars, closing, stopEvent,
                   closeCalls, stopRuns, wsRunning, wsConn, wpc, plpc, vlpc>>

\* _run: with self._lock: if not self._running: break
WsCheck ==
    /\ wpc = "check"
    /\ wpc' = IF wsRunning THEN "create" ELSE "exited"
    /\ UNCHANGED <<now, ref, feedVars, stratVars, stOp, apiVars, snapVars, closing, stopEvent,
                   opc, closeCalls, stopRuns, wsRunning, wsConn, plpc, vlpc>>

\* _run: self._ws = WebSocketApp(...)
WsCreate ==
    /\ wpc = "create"
    /\ wsConn' = "made"
    /\ wpc' = "run"
    /\ UNCHANGED <<now, ref, feedVars, stratVars, stOp, apiVars, snapVars, closing, stopEvent,
                   opc, closeCalls, stopRuns, wsRunning, plpc, vlpc>>

\* _run: self._ws.run_forever(...) connects and blocks; it returns at once
\* when the app was closed or the connection cannot be made
WsRunForever ==
    /\ wpc = "run"
    /\ \/ wsConn = "made" /\ wsConn' = "open" /\ wpc' = "block"
       \/ wsConn' = "closed" /\ wpc' = "sleep"
    /\ UNCHANGED <<now, ref, feedVars, stratVars, stOp, apiVars, snapVars, closing, stopEvent,
                   opc, closeCalls, stopRuns, wsRunning, plpc, vlpc>>

\* the network drops the open connection
WsDrop ==
    /\ wpc = "block"
    /\ wsConn = "open"
    /\ wsConn' = "closed"
    /\ UNCHANGED <<now, ref, feedVars, stratVars, stOp, apiVars, snapVars, closing, stopEvent,
                   opc, closeCalls, stopRuns, wsRunning, wpc, plpc, vlpc>>

\* run_forever returns once the connection is closed
WsReturn ==
    /\ wpc = "block"
    /\ wsConn = "closed"
    /\ wpc' = "sleep"
    /\ UNCHANGED <<now, ref, feedVars, stratVars, stOp, apiVars, snapVars, closing, stopEvent,
                   opc, closeCalls, stopRuns, wsRunning, wsConn, plpc, vlpc>>

\* _run: time.sleep(2), then the loop's next round
WsSleep ==
    /\ wpc = "sleep"
    /\ wpc' = "check"
    /\ UNCHANGED <<now, ref, feedVars, stratVars, stOp, apiVars, snapVars, closing, stopEvent,
                   opc, closeCalls, stopRuns, wsRunning, wsConn, plpc, vlpc>>

\* while not STOP_EVENT.is_set(): the loop's body, or its end
LoopCheck(pc) == IF pc = "check" THEN (IF stopEvent THEN "exited" ELSE "body")
                 ELSE IF pc = "body" THEN "sleep"
                 ELSE "check"

\* poll_loop: the test of STOP_EVENT, the try block, the sleep
PollLoopStep ==
    /\ plpc # "exited"
    /\ plpc' = LoopCheck(plpc)
    /\ UNCHANGED <<now, ref, feedVars, stratVars, stOp, apiVars, snapVars, closing, stopEvent,
                   opc, closeCalls, stopRuns, wsRunning, wsConn, wpc, vlpc>>

\* verify_loop: the test of STOP_EVENT, the cycle, the sleep
VerifyLoopStep ==
    /\ vlpc # "exited"
    /\ vlpc' = LoopCheck(vlpc)
    /\ UNCHANGED <<now, ref, feedVars, stratVars, stOp, apiVars, snapVars, closing, stopEvent,
                   opc, closeCalls, stopRuns, wsRunning, wsConn, wpc, plpc>>

NextStop ==
    \/ OnCloseBegin
    \/ WsStopFlag
    \/ WsStopClose
    \/ JoinPoll
    \/ JoinVerify
    \/ Quit
    \/ WsCheck
    \/ WsCreate
    \/ WsRunForever
    \/ WsDrop
    \/ WsReturn
    \/ WsSleep
    \/ PollLoopStep
    \/ VerifyLoopStep

SpecStop == InitFeed /\ [][NextStop]_vars

\* on_close runs on the Tk thread to its end: the lock of KrakenWS is held
\* only for a flag read or write, and both joins have a timeout
SpecStopFair ==
    /\ InitFeed
    /\ [][NextStop]_vars
    /\ WF_vars(WsStopFlag)
    /\ WF_vars(WsStopClose)
    /\ WF_vars(JoinPoll)
    /\ WF_vars(JoinVerify)
    /\ WF_vars(Quit)

-----------------------------------------------------------------------------
(* KrakenWS under any sequence of start() and stop() calls made by one       *)
(* caller (data.py:176-191), with the threads start() makes each running     *)
(* _run (data.py:193-273).                                                   *)

\* start(): with self._lock: if self._running: return; self._running = True
KwStartFlag ==
    /\ kwCaller = "idle"
    /\ kwCalls < MaxWsCalls
    /\ kwRunning \/ \E i \in LoopIds : kwLoop[i].pc = "none"
    /\ kwCalls' = kwCalls + 1
    /\ IF kwRunning
       THEN UNCHANGED <<kwRunning, kwCaller>>
       ELSE kwRunning' = TRUE /\ kwCaller' = "spawn"
    /\ UNCHANGED <<kwApp, kwLoop>>
    /\ UNCHANGED <<now, ref, feedVars, stratVars, stOp, snapVars, stopVars, rateVars>>

\* start(): self._thread = threading.Thread(target=self._run); .start()
KwStartThread ==
    /\ kwCaller = "spawn"
    /\ LET i == CHOOSE j \in LoopIds :
                   /\ kwLoop[j].pc = "none"
                   /\ \A k \in LoopIds : kwLoop[k].pc = "none" => j <= k
       IN  kwLoop' = [kwLoop EXCEPT ![i].pc = "check"]
    /\ kwCaller' = "idle"
    /\ UNCHANGED <<kwRunning, kwApp, kwCalls>>
    /\ UNCHANGED <<now, ref, feedVars, stratVars, stOp, snapVars, stopVars, rateVars>>

\* stop(): with self._lock: self._running = False
KwStopFlag ==
    /\ kwCaller = "idle"
    /\ kwCalls < MaxWsCalls
    /\ kwCalls' = kwCalls + 1
    /\ kwRunning' = FALSE
    /\ kwCaller' = "close"
    /\ UNCHANGED <<kwApp, kwLoop>>
    /\ UNCHANGED <<now, ref, feedVars, stratVars, stOp, snapVars, stopVars, rateVars>>

\* stop(): if self._ws: self._ws.close()
KwStopClose ==
    /\ kwCaller = "close"
    /\ kwLoop' = IF kwApp = 0 THEN kwLoop
                 ELSE [kwLoop EXCEPT ![kwApp].conn = "closed", ![kwApp].subs = {}]
    /\ kwCaller' = "idle"
    /\ UNCHANGED <<kwRunning, kwApp, kwCalls>>
    /\ UNCHANGED <<now, ref, feedVars, stratVars, stOp, snapVars, stopVars, rateVars>>

\* _run in thread i: with self._lock: if not self._running: break
RunCheckOf(i) ==
    /\ kwLoop[i].pc = "check"
    /\ kwLoop' = [kwLoop EXCEPT ![i].pc = IF kwRunning THEN "create" ELSE "exited"]
    /\ UNCHANGED <<kwRunning, kwApp, kwCaller, kwCalls>>
    /\ UNCHANGED <<now, ref, feedVars, stratVars, stOp, snapVars, stopVars, rateVars>>

\* _run in thread i: self._ws = WebSocketApp(...)
RunCreateOf(i) ==
    /\ kwLoop[i].pc = "create"
    /\ kwLoop' = [kwLoop EXCEPT ![i] = [pc |-> "run", conn |-> "made", subs |-> {},
                                         again |-> kwLoop[i].conn # "none"]]
    /\ kwApp' = i
    /\ UNCHANGED <<kwRunning, kwCaller, kwCalls>>
    /\ UNCHANGED <<now, ref, feedVars, stratVars, stOp, snapVars, stopVars, rateVars>>

\* _run in thread i: self._ws.run_forever(...).  It connects, _on_open sends
\* the two subscribe messages (data.py:194-204) and it blocks; or the app
\* was closed, or the connection cannot be made, and it returns at once
RunForeverOf(i) ==
    /\ kwLoop[i].pc = "run"
    /\ \/ /\ kwLoop[i].conn = "made"
          /\ kwLoop' = [kwLoop EXCEPT ![i].pc = "block", ![i].conn = "open",
                                       ![i].subs = Channels]
       \/ kwLoop' = [kwLoop EXCEPT ![i].pc = "sleep", ![i].conn = "closed"]
    /\ UNCHANGED <<kwRunning, kwApp, kwCaller, kwCalls>>
    /\ UNCHANGED <<now, ref, feedVars, stratVars, stOp, snapVars, stopVars, rateVars>>

\* the network drops the open connection of thread i
RunDropOf(i) ==
    /\ kwLoop[i].pc = "block"
    /\ kwLoop[i].conn = "open"
    /\ kwLoop' = [kwLoop EXCEPT ![i].conn = "closed", ![i].subs = {}]
    /\ UNCHANGED <<kwRunning, kwApp, kwCaller, kwCalls>>
    /\ UNCHANGED <<now, ref, feedVars, stratVars, stOp, snapVars, stopVars, rateVars>>

\* a reconnect loop that ends at the first lost connection
RunReturnGiveUp(i) ==
    /\ kwLoop[i].pc = "block"
    /\ kwLoop[i].conn = "closed"
    /\ kwLoop' = [kwLoop EXCEPT ![i].pc = "exited"]
    /\ UNCHANGED <<kwRunning, kwApp, kwCaller, kwCalls>>
    /\ UNCHANGED <<now, ref, feedVars, stratVars, stOp, snapVars, stopVars, rateVars>>

\* run_forever of thread i returns once its connection is closed
RunReturnOf(i) ==
    /\ kwLoop[i].pc = "block"
    /\ kwLoop[i].conn = "closed"
    /\ kwLoop' = [kwLoop EXCEPT ![i].pc = "sleep"]
    /\ UNCHANGED <<kwRunning, kwApp, kwCaller, kwCalls>>
    /\ UNCHANGED <<now, ref, feedVars, stratVars, stOp, snapVars, stopVars, rateVars>>

\* _run in thread i: time.sleep(2), then the loop's next round
RunSleepOf(i) ==
    /\ kwLoop[i].pc = "sleep"
    /\ kwLoop' = [kwLoop EXCEPT ![i].pc = "check"]
    /\ UNCHANGED <<kwRunning, kwApp, kwCaller, kwCalls>>
    /\ UNCHANGED <<now, ref, feedVars, stratVars, stOp, snapVars, stopVars, rateVars>>

RunCheck   == \E i \in LoopIds : RunCheckOf(i)
RunCreate  == \E i \in LoopIds : RunCreateOf(i)
RunForever == \E i \in LoopIds : RunForeverOf(i)
RunDrop    == \E i \in LoopIds : RunDropOf(i)
RunReturn  == \E i \in LoopIds : RunReturnOf(i)
RunSleep   == \E i \in LoopIds : RunSleepOf(i)

NextWs ==
    \/ KwStartFlag
    \/ KwStartThread
    \/ KwStopFlag
    \/ KwStopClose
    \/ RunCheck
    \/ RunCreate
    \/ RunForever
    \/ RunDrop
    \/ RunReturn
    \/ RunSleep

SpecWs == InitFeed /\ [][NextWs]_vars

\* every thread made by start() keeps running: _run holds the lock only
\* for a flag read, run_forever returns once its connection is closed, and
\* time.sleep(2) ends
SpecWsFair ==
    /\ InitFeed
    /\ [][NextWs]_vars
    /\ \A i \in LoopIds : /\ WF_vars(RunCheckOf(i))
                          /\ WF_vars(RunCreateOf(i))
                          /\ WF_vars(RunForeverOf(i))
                          /\ WF_vars(RunReturnOf(i))
                          /\ WF_vars(RunSleepOf(i))

-----------------------------------------------------------------------------
(* KrakenClient._rate_limit (data.py:55-60) under the threads that share    *)
(* the one client (tradebot.py:81): _get calls it and then sends the         *)
(* request (data.py:62-65).  No lock is taken.                               *)

\* time passes
RateTick ==
    /\ rclock < MaxRClock
    /\ rclock' = rclock + 1
    /\ UNCHANGED <<last_call, rpc, rwake, prevReq, lastReq>>
    /\ UNCHANGED <<now, ref, feedVars, stratVars, stOp, snapVars, stopVars, kwVars>>

\* now = time.time(); wait = self._last_call + self.min_interval - now;
\* if wait > 0: time.sleep(wait) begins
RateRead ==
    /\ \E t \in RateThreads :
          /\ rpc[t] = "idle"
          /\ LET wait == last_call + MinInterval - rclock
             IN  IF wait > 0
                 THEN /\ rpc' = [rpc EXCEPT ![t] = "sleep"]
                      /\ rwake' = [rwake EXCEPT ![t] = rclock + wait]
                 ELSE /\ rpc' = [rpc EXCEPT ![t] = "set"]
                      /\ rwake' = rwake
    /\ UNCHANGED <<rclock, last_call, prevReq, lastReq>>
    /\ UNCHANGED <<now, ref, feedVars, stratVars, stOp, snapVars, stopVars, kwVars>>

\* time.sleep(wait) returns, not before its time
RateWake ==
    /\ \E t \in RateThreads :
          /\ rpc[t] = "sleep"
          /\ rclock >= rwake[t]
          /\ rpc' = [rpc EXCEPT ![t] = "set"]
    /\ UNCHANGED <<rclock, last_call, rwake, prevReq, lastReq>>
    /\ UNCHANGED <<now, ref, feedVars, stratVars, stOp, snapVars, stopVars, kwVars>>

\* self._last_call = time.time(); back in _get, session.get(...) starts
RateSet ==
    /\ \E t \in RateThreads :
          /\ rpc[t] = "set"
          /\ rpc' = [rpc EXCEPT ![t] = "idle"]
    /\ last_call' = rclock
    /\ prevReq' = lastReq
    /\ lastReq' = rclock
    /\ UNCHANGED <<rclock, rwake>>
    /\ UNCHANGED <<now, ref, feedVars, stratVars, stOp, snapVars, stopVars, kwVars>>

NextRate ==
    \/ RateTick
    \/ RateRead
    \/ RateWake
    \/ RateSet

SpecRate == InitFeed /\ [][NextRate]_vars

-----------------------------------------------------------------------------
(* BreakoutStrategy under its two callers: the poll thread (on_new_close,   *)
(* twice per new candle, tradebot.py:419-434) and the UI thread              *)
(* (on_live_price, tradebot.py:170-179).  A step is one read or write of    *)
(* self.active; an exception raised inside a handler ends the call, as the  *)
(* callers' try/except blocks make it.                                      *)

StratNows == {6}
StratRefs == {6, 7}

InitStrat ==
    /\ now \in StratNows
    /\ ref \in StratRefs
    /\ FeedStart
    /\ StratStart
    /\ prioritizeStop \in BOOLEAN
    /\ lastClose = now - 1

\* try_set_blue -> strategy.set_blue(bh, bl)
SetBlue ==
    /\ blue_high = NoLevel
    /\ upc = "idle"
    /\ \E lv \in LevelPairs :
          /\ blue_high' = lv[1]
          /\ blue_low' = lv[2]
    /\ UNCHANGED <<now, ref, feedVars, prioritizeStop, active, spollVars, uiVars,
                   sobsVars>>
    /\ UNCHANGED <<stOp, sideVars, chartVars>>

\* poll_loop: a new closed candle is read from the store (tradebot.py:390-401)
NewClose ==
    /\ spc = "idle"
    /\ \E t \in (lastClose + 1)..(now - 1) :
          /\ lastClose' = t
          /\ \E c \in StratCandles(t) : curC' = c
    /\ scall' = 1
    /\ spc' = "dispatch"
    /\ UNCHANGED <<now, ref, feedVars, cfgVars, active, sx, sNote, uiVars, sobsVars>>
    /\ UNCHANGED <<stOp, sideVars, chartVars>>

\* on_new_close returns (or raises) to poll_loop
SReturn ==
    /\ IF scall = 1
       THEN /\ scall' = 2
            /\ spc' = "dispatch"
            /\ curC' = curC
       ELSE /\ scall' = 0
            /\ spc' = "idle"
            /\ curC' = NoCandle
    /\ sx' = NoExit
    /\ sNote' = ""
    /\ lastClose' = lastClose

\* on_new_close up to its branch: the guards, then manage or enter
\* (strategies.py:131-161, and _enter up to self.active = Position(...))
OnNewClose ==
    /\ spc = "dispatch"
    /\ LET br == CloseBranch(curC, ref, blue_high, blue_low, active)
           e  == EntryRule(curC, blue_high, blue_low)
       IN  IF br = "manage"
           THEN /\ spc' = "manage"
                /\ UNCHANGED <<lastClose, scall, curC, sx, sNote, active, sobsVars>>
           ELSE IF br = "enter" /\ EnterGuard(active)
           THEN /\ active' = NewPosition(PosId(curC.time, scall), e[1], e[2],
                                         curC.time)
                /\ exitRows' = 0
                /\ tickClosedAt' = NoTime
                /\ sNote' = e[3]
                /\ spc' = "logentry"
                /\ UNCHANGED <<lastClose, scall, curC, sx>>
           ELSE SReturn /\ UNCHANGED <<active, sobsVars>>
    /\ UNCHANGED <<now, ref, feedVars, cfgVars, uiVars>>
    /\ UNCHANGED <<stOp, sideVars, chartVars>>

\* the rest of _enter: ui.set_position_levels(entry, stop, target, side) with
\* _enter's locals, the log line, journal.log_entry(self.active)
LogEntry ==
    /\ spc = "logentry"
    /\ SReturn
    /\ UNCHANGED <<now, ref, feedVars, cfgVars, active, uiVars, sobsVars>>
    /\ pos_entry' = EntryRule(curC, blue_high, blue_low)[2]
    /\ UNCHANGED <<stOp, sideVars>>

\* _manage_position: p = self.active, the hits, the tie-break
Manage ==
    /\ spc = "manage"
    /\ IF ~IsActive(active)
       THEN SReturn
       ELSE LET d == ManageDecision(active, curC, prioritizeStop)
            IN  IF d = NoExit
                THEN SReturn
                ELSE /\ sx' = d
                     /\ spc' = "x1"
                     /\ UNCHANGED <<lastClose, scall, curC, sNote>>
    /\ UNCHANGED <<now, ref, feedVars, cfgVars, active, uiVars, sobsVars>>
    /\ UNCHANGED <<stOp, sideVars, chartVars>>

\* _exit on the poll thread: if not self.active: return.  After a normal
\* return _manage_position clears the overlay itself (exit_now)
SExitCheck ==
    /\ spc = "x1"
    /\ IF ~IsActive(active)
       THEN SReturn /\ pos_entry' = NoPrice
       ELSE spc' = "x2" /\ UNCHANGED <<lastClose, scall, curC, sx, sNote, pos_entry>>
    /\ UNCHANGED <<now, ref, feedVars, cfgVars, active, uiVars, sobsVars>>
    /\ UNCHANGED <<stOp, sideVars>>

\* self.active.exit_price = price; .outcome = outcome; .closed_at = ts
SExitSet ==
    /\ spc = "x2"
    /\ IF ~IsActive(active)
       THEN SReturn /\ UNCHANGED active
       ELSE /\ active' = [active EXCEPT !.exit_price = sx.price,
                                        !.outcome = sx.outcome,
                                        !.closed_at = sx.ts]
            /\ spc' = "x3"
            /\ UNCHANGED <<lastClose, scall, curC, sx, sNote>>
    /\ UNCHANGED <<now, ref, feedVars, cfgVars, uiVars, sobsVars>>
    /\ UNCHANGED <<stOp, sideVars, chartVars>>

\* self.journal.log_exit(self.active, note="exit"), the EXIT log line and
\* ui.clear_position_levels()
SExitLog ==
    /\ spc = "x3"
    /\ IF ~IsActive(active)
       THEN SReturn /\ UNCHANGED <<exitRows, pos_entry>>
       ELSE /\ exitRows' = exitRows + 1
            /\ pos_entry' = NoPrice
            /\ spc' = "x4"
            /\ UNCHANGED <<lastClose, scall, curC, sx, sNote>>
    /\ UNCHANGED <<now, ref, feedVars, cfgVars, active, uiVars, tickClosedAt>>
    /\ UNCHANGED <<stOp, sideVars>>

\* self.active = None; back in _manage_position, exit_now clears the overlay
SExitClear ==
    /\ spc = "x4"
    /\ active' = NoPosition
    /\ pos_entry' = NoPrice
    /\ SReturn
    /\ UNCHANGED <<now, ref, feedVars, cfgVars, uiVars, sobsVars>>
    /\ UNCHANGED <<stOp, sideVars>>

\* on_live_price returns (or raises) to _apply
UReturn ==
    /\ upc' = "idle"
    /\ ux' = NoExit
    /\ uTick' = NoTick

\* on_live_price(price, ts): p = self.active, the stop/target test
LiveTick ==
    /\ upc = "idle"
    /\ \E price \in TickPrices :
          LET d == IF IsActive(active) THEN LiveDecision(active, price, now)
                   ELSE NoExit
          IN  IF d = NoExit
              THEN UNCHANGED uiVars
              ELSE /\ ux' = d
                   /\ uTick' = [price |-> price, ts |-> now]
                   /\ upc' = "x1"
    /\ UNCHANGED <<now, ref, feedVars, cfgVars, active, spollVars, sobsVars>>
    /\ UNCHANGED <<stOp, sideVars, chartVars>>

\* _exit on the UI thread: if not self.active: return
UExitCheck ==
    /\ upc = "x1"
    /\ IF ~IsActive(active) THEN UReturn ELSE upc' = "x2" /\ UNCHANGED <<ux, uTick>>
    /\ UNCHANGED <<now, ref, feedVars, cfgVars, active, spollVars, sobsVars>>
    /\ UNCHANGED <<stOp, sideVars, chartVars>>

UExitSet ==
    /\ upc = "x2"
    /\ IF ~IsActive(active)
       THEN UReturn /\ UNCHANGED active
       ELSE /\ active' = [active EXCEPT !.exit_price = ux.price,
                                        !.outcome = ux.outcome,
                                        !.closed_at = ux.ts]
            /\ upc' = "x3"
            /\ UNCHANGED <<ux, uTick>>
    /\ UNCHANGED <<now, ref, feedVars, cfgVars, spollVars, sobsVars>>
    /\ UNCHANGED <<stOp, sideVars, chartVars>>

UExitLog ==
    /\ upc = "x3"
    /\ IF ~IsActive(active)
       THEN UReturn /\ UNCHANGED <<exitRows, pos_entry>>
       ELSE /\ exitRows' = exitRows + 1
            /\ pos_entry' = NoPrice
            /\ upc' = "x4"
            /\ UNCHANGED <<ux, uTick>>
    /\ UNCHANGED <<now, ref, feedVars, cfgVars, active, spollVars, tickClosedAt>>
    /\ UNCHANGED <<stOp, sideVars>>

UExitClear ==
    /\ upc = "x4"
    /\ active' = NoPosition
    /\ tickClosedAt' = IF IsActive(active) THEN uTick.ts ELSE tickClosedAt
    /\ UReturn
    /\ UNCHANGED <<now, ref, feedVars, cfgVars, spollVars, exitRows>>
    /\ UNCHANGED <<stOp, sideVars, chartVars>>

NextStrat ==
    \/ Tick
    \/ SetBlue
    \/ NewClose
    \/ OnNewClose
    \/ LogEntry
    \/ Manage
    \/ SExitCheck
    \/ SExitSet
    \/ SExitLog
    \/ SExitClear
    \/ LiveTick
    \/ UExitCheck
    \/ UExitSet
    \/ UExitLog
    \/ UExitClear

SpecStrat == InitStrat /\ [][NextStrat]_vars

-----------------------------------------------------------------------------
(* Properties of the store, the feed and the verifier (SpecFeed) *)

AllFields == {"time"} \cup Fields

StrictlyIncreasing(s) ==
    \A i \in 1..(Len(s) - 1) : s[i].time < s[i + 1].time

\* C1: in every reachable state the stored series is strictly increasing by
\* timestamp: no duplicate and no out-of-order timestamps, whatever the
\* interleaving of priming, backfill, poll_once and verifier corrections.
C1_StrictlyIncreasing == StrictlyIncreasing(series)

\* C3: no writer (priming, backfill, poll_once, verifier) ever stores a record
\* that is provisional at the moment it is written: its timestamp is before
\* the current minute, its trade-count and its volume are positive.
C3_NoProvisionalStored == provisional = {}

\* C4: poll_once is idempotent: a further call, made when upstream returns no
\* closed record newer than the stored ones, leaves the series and the
\* watermark exactly as the previous call left them.
C4_PollIdempotent ==
    [][ (ppc = "fetch" /\ ppc' = "idle" /\ pollsDone >= 1 /\ pollsDone' = 2)
           => (series' = series /\ wm' = wm) ]_vars

\* a second poll_once has run on a non-empty store with nothing new upstream
C4_Witness == pollsDone = 2 /\ ppc = "idle" /\ Len(series) > 0 /\ wm = LastTime(series)

\* stored record st and fetched record a differ in exactly one field
OneFieldDiff(st, a) == Cardinality({f \in AllFields : st[f] # a[f]}) = 1

\* C5: correction round trip: a record among the last 5 stored that differs
\* from its fetched counterpart in exactly one field is corrected by the
\* verification cycle (that field then equals the fetched value), and the
\* cycle leaves every record that matched as it was.
C5_CorrectionRoundTrip ==
    [][ /\ (vpc = "compare" /\ vpc' # "compare"
              /\ Len(series) >= VerifyK /\ Len(vFetched) >= VerifyK)
           => \A i \in 1..VerifyK :
                 OneFieldDiff(series[Len(series) - VerifyK + i], vFetched[i])
                    => \E k \in 1..Len(vMism') :
                          vMism'[k] = <<Len(series) - VerifyK + i, vFetched[i]>>
        /\ (vpc = "patch" /\ vpc' = "idle")
           => \A j \in 1..Len(series) :
                 IF \E k \in 1..Len(vMism) : vMism[k][1] = j
                 THEN \E k \in 1..Len(vMism) :
                         vMism[k][1] = j /\ series'[j] = vMism[k][2]
                 ELSE series'[j] = series[j] ]_vars

\* a poll_once call returns / the comparison of a cycle ends / its patch ends
PollReturns == ppc = "fetch" /\ ppc' = "idle"
CompareEnds == vpc = "compare" /\ vpc' # "compare"
PatchEnds   == vpc = "patch" /\ vpc' = "idle"

\* C15: after poll_once the watermark equals the timestamp of the newest
\* record accepted in that call, and is unchanged when the call accepted none.
C15_WatermarkFollowsAccepted ==
    [][ PollReturns
          => IF Len(series') > Len(series)
             THEN wm' = series'[Len(series')].time
             ELSE wm' = wm ]_vars

C17_ComparesEveryField ==
    [][ (CompareEnds /\ Len(series) >= VerifyK /\ Len(vFetched) >= VerifyK)
          => LET slot(i) == Len(series) - VerifyK + i
                 differ(i) == \E f \in AllFields : series[slot(i)][f] # vFetched[i][f]
             IN  /\ \A i \in 1..VerifyK :
                        differ(i) <=> \E k \in 1..Len(vMism') :
                                          vMism'[k] = <<slot(i), vFetched[i]>>
                 /\ vReport' = "OK" => \A i \in 1..VerifyK : ~differ(i) ]_vars

C19_FetchErrorNoMutation ==
    [][ (vReport' = "error" /\ vReport # "error")
          => /\ series' = series
             /\ wm' = wm
             /\ vMism' = vMism
             /\ vpc = "idle"
             /\ vpc' = "idle" ]_vars

\* a cycle runs after a cycle that ended with a fetch error
C19_Witness ==
    /\ vReport = "error"
    /\ vpc = "compare"
    /\ Len(series) > 0

C21_CorrectionsAudited ==
    [][ /\ PatchEnds
           => LET changed == {j \in 1..Len(series) : series'[j] # series[j]}
              IN  /\ Len(series') = Len(series)
                  /\ Len(corrRows') = Cardinality(changed)
                  /\ \A j \in changed :
                        \E k \in 1..Len(corrRows') : corrRows'[k] = series'[j]
                  /\ \A k \in 1..Len(corrRows') :
                        \E j \in changed : corrRows'[k] = series'[j]
        /\ (CompareEnds /\ vpc' = "idle")
           => corrRows' = << >> /\ series' = series ]_vars

\* a cycle has overwritten at least two slots and written their rows
C21_Witness ==
    /\ vReport = "fixed"
    /\ vpc = "idle"
    /\ Len(corrRows) >= 2
    /\ \A k \in 1..Len(corrRows) :
          \E j \in 1..Len(series) : series[j] = corrRows[k]

\* C33 (tradebot.py:384-441, data.py:102-122): a failure in one iteration of
\* the poll loop does not end the loop: a poll_once that does not return
\* normally leaves the series, the watermark and last_written_time as they
\* were, and from there the only step of the poll thread is the next
\* poll_once, which can begin whenever stop was not requested.
C33_PollFailureSkipsIteration ==
    /\ [][ /\ (ppc = "fetch" /\ ppc' \notin {"fetch", "idle"})
                 => /\ ppc' = "failed"
                    /\ series' = series
                    /\ wm' = wm
                    /\ lastClose' = lastClose
           /\ (ppc = "failed" /\ ppc' # "failed")
                => (ppc' = "fetch" /\ pNowMin' = now) ]_vars
    /\ []((ppc = "failed" /\ ~stopEvent) => ENABLED PollRetry)

\* a fetch has failed on a non-empty series whose watermark was set
C33_Witness ==
    /\ ppc = "failed"
    /\ Len(series) > 0
    /\ wm = LastTime(series)
    /\ ~stopEvent

\* C37 as stated: the verifier pairs records by timestamp: a patch overwrites
\* a stored record only with a fetched record of the same timestamp, so no
\* slot's timestamp changes.
C37_PairsByTimestamp ==
    [][ PatchEnds
          => /\ Len(series') = Len(series)
             /\ \A j \in 1..Len(series) : series'[j].time = series[j].time ]_vars

\* C38 as stated: the watermark never decreases, and after each poll_once on
\* a non-empty series it equals the series' last stored timestamp.
C38_WatermarkMonotonic ==
    [][ /\ wm' >= wm
        /\ (PollReturns /\ Len(series') > 0) => wm' = LastTime(series') ]_vars

\* C25 as stated: mutations of the ring are serialized: the poll thread
\* appends no record while a correction is in progress, that is between the
\* verifier's comparison, which fixes the slots to overwrite, and its patch.
C25_MutationsSerialized ==
    [][ (PollReturns /\ Len(series') > Len(series)) => vpc # "patch" ]_vars

\* C27 as stated: every record a poll_once call accepts into the store is
\* passed to the recorder by the poll_loop iteration that made the call.
C27_AcceptedRecorded ==
    [][ PollReturns
          => \A i \in (Len(series) + 1)..Len(series') :
                series'[i].time = pollHanded' ]_vars

-----------------------------------------------------------------------------
(* Properties of CandleStore on its own (SpecStore) *)

\* the number of records of s with lo <= time <= hi
CountIn(s, lo, hi) ==
    Cardinality({i \in 1..Len(s) : lo <= s[i].time /\ s[i].time <= hi})

\* C11: last_n_until(tf, t, n) never returns a record with timestamp > t,
\* returns its records oldest-first, and returns the empty list when n <= 0
\* or the series is empty.
C11_LastNUntilOrdered ==
    stOp.kind = "query"
       => /\ \A i \in 1..Len(stOp.out) : stOp.out[i].time <= stOp.until
          /\ \A i \in 1..(Len(stOp.out) - 1) :
                stOp.out[i].time <= stOp.out[i + 1].time
          /\ (stOp.n <= 0 \/ Len(stOp.before) = 0) => stOp.out = << >>

\* C12: for every store content, bound t and n, last_n_until returns exactly
\* the min(n, k) most recent stored records with timestamp <= t, k being the
\* number of such records, each returned record being one stored record with
\* all its eight fields.
C12_LastNUntilMostRecent ==
    stOp.kind = "query"
       => LET k == CountIn(stOp.before, 0, stOp.until)
              m == Min(Max(stOp.n, 0), k)
          IN  /\ Len(stOp.out) = m
              /\ \A i \in 1..Len(stOp.out) :
                    /\ stOp.out[i].time <= stOp.until
                    /\ \E j \in 1..Len(stOp.before) :
                          stOp.before[j] = stOp.out[i]
              /\ \A x \in 0..stOp.until :
                    CountIn(stOp.out, x, stOp.until)
                       = Min(m, CountIn(stOp.before, x, stOp.until))

\* C13: append(record) with a record whose timestamp is less than or equal to
\* the last stored timestamp is a no-op: the series stays as it was.
C13_AppendRejectsOld ==
    (stOp.kind = "append" /\ Len(stOp.before) > 0
       /\ stOp.rec.time <= stOp.before[Len(stOp.before)].time)
       => series = stOp.before

\* C14: the series never holds more records than its capacity; an append
\* below capacity adds the record at the tail, an append at capacity removes
\* exactly the oldest record, keeps the others in their order and places the
\* new record last.
C14_RingBounded ==
    /\ Len(series) <= capacity
    /\ stOp.kind = "append"
          => IF Len(stOp.before) < capacity
             THEN /\ Len(series) = Len(stOp.before) + 1
                  /\ \A i \in 1..Len(stOp.before) : series[i] = stOp.before[i]
                  /\ series[Len(series)] = stOp.rec
             ELSE /\ Len(series) = capacity
                  /\ \A i \in 1..(capacity - 1) : series[i] = stOp.before[i + 1]
                  /\ series[capacity] = stOp.rec

\* an append was made on a full ring and dropped the oldest record
C14_Witness ==
    /\ stOp.kind = "append"
    /\ Len(stOp.before) = capacity
    /\ Len(series) = capacity
    /\ series[capacity] = stOp.rec
    /\ series[1] = stOp.before[2]
    /\ series[1] # stOp.before[1]

-----------------------------------------------------------------------------
(* Properties of the breakout strategy (SpecStrat) *)

\* a step of the poll thread / of the UI thread
PollStep == <<spc, scall>>' # <<spc, scall>>
UiStep   == upc' # upc

LevelsSet == blue_high # NoLevel /\ blue_low # NoLevel

\* the record satisfies the entry conditions of on_new_close
EntrySignal(c) ==
    \/ c.open > blue_high \/ c.close > blue_high
    \/ c.open < blue_low \/ c.close < blue_low

\* C2: under any interleaving of on_new_close (poll thread) and on_live_price
\* (UI thread) an opened position produces exactly one exit: the journal never
\* holds a second exit row for it.
C2_ExactlyOneExit == exitRows <= 1

\* C6: while a position is active, on_new_close opens no second position and
\* emits no entry event, also for a record that satisfies the entry conditions;
\* past the reference-time and level guards it goes to the stop/target
\* management check, and the poll thread changes the position only by entering
\* from idle or by the exit that management decided.
C6_NoReentryWhileActive ==
    [][ PollStep =>
          /\ (spc = "dispatch" /\ active # NoPosition)
                => /\ active' = active
                   /\ spc' # "logentry"
                   /\ exitRows' = exitRows
          /\ (spc = "dispatch" /\ active # NoPosition /\ LevelsSet
                /\ curC.time >= ref)
                => spc' = "manage"
          /\ (active' # active)
                => \/ spc = "dispatch" /\ active = NoPosition
                   \/ spc = "x2" /\ spc' = "x3" /\ active'.id = active.id
                   \/ spc = "x4" /\ active' = NoPosition ]_vars

\* the management check runs on an active position for a later record that
\* satisfies the entry conditions
C6_Witness ==
    /\ spc = "manage"
    /\ active # NoPosition
    /\ active.opened_at < curC.time
    /\ EntrySignal(curC)

\* the record's range touches both the stop and the target of position p
TouchesBoth(p, c) ==
    IF p.side = "long" THEN c.low <= p.stop /\ c.high >= p.target
    ELSE c.high >= p.stop /\ c.low <= p.target

\* C7: when a closed record's range touches both the stop and the target of the
\* active position, _manage_position makes exactly one exit: a loss at the stop
\* price when stop-priority is enabled, a win at the target price when it is
\* disabled, and these are the values its _exit writes to the position.
C7_ExitTieBreak ==
    [][ PollStep =>
          /\ (spc = "manage" /\ active # NoPosition /\ TouchesBoth(active, curC))
                => /\ spc' = "x1"
                   /\ sx'.ts = curC.time
                   /\ IF prioritizeStop
                      THEN sx'.outcome = "loss" /\ sx'.price = active.stop
                      ELSE sx'.outcome = "win" /\ sx'.price = active.target
          /\ (spc = "x2" /\ spc' = "x3")
                => /\ active'.outcome = sx.outcome
                   /\ active'.exit_price = sx.price
                   /\ active'.closed_at = sx.ts
                   /\ sx' = sx ]_vars

\* a tie was resolved to a loss at the stop under stop-priority
C7_Witness ==
    /\ spc = "x3"
    /\ active # NoPosition
    /\ TouchesBoth(active, curC)
    /\ prioritizeStop
    /\ active.outcome = "loss"
    /\ active.exit_price = active.stop

\* C8: when idle with levels set, a record (at or after the reference time)
\* whose open is above the upper level opens a long position with entry = open,
\* stop = entry - riskStep, target = entry + riskReward * riskStep and basis
\* OPEN; every short position opened has stop = entry + riskStep and
\* target = entry - riskReward * riskStep.
C8_EntryComputation ==
    [][ (PollStep /\ spc = "dispatch" /\ active = NoPosition /\ LevelsSet
           /\ curC.time >= ref)
          => /\ (curC.open > blue_high)
                   => /\ spc' = "logentry"
                      /\ active' # NoPosition
                      /\ active'.side = "long"
                      /\ active'.entry = curC.open
                      /\ active'.stop = curC.open - RiskStep
                      /\ active'.target = curC.open + RiskReward * RiskStep
                      /\ active'.opened_at = curC.time
                      /\ sNote' = "OPEN"
             /\ (active' # NoPosition /\ active'.side = "short")
                   => /\ active'.stop = active'.entry + RiskStep
                      /\ active'.target = active'.entry - RiskReward * RiskStep
                      /\ active'.entry = IF curC.open < blue_low THEN curC.open
                                         ELSE curC.close ]_vars

\* a long position was just opened on the open of the record
C8_Witness ==
    /\ spc = "logentry"
    /\ sNote = "OPEN"
    /\ active # NoPosition
    /\ active.side = "long"
    /\ curC.open > blue_high
    /\ active.entry = curC.open
    /\ active.stop = active.entry - RiskStep
    /\ active.target = active.entry + RiskReward * RiskStep

\* C9 as stated: the exit on_live_price records carries the tick's price and
\* the tick's timestamp.
C9_ExitAtTickPrice ==
    [][ (UiStep /\ upc = "x2" /\ upc' = "x3")
          => /\ active'.exit_price = uTick.price
             /\ active'.closed_at = uTick.ts ]_vars

\* C9: when a live tick crosses the target (or the stop) of the active
\* position, on_live_price exits with a win at the position's target level (a
\* loss at its stop level), not at the tick's price, and with the tick's
\* timestamp; its _exit writes these values and clears the position.
C9_ExitAtLevel ==
    [][ UiStep =>
          /\ (upc = "idle" /\ upc' = "x1")
                => /\ active # NoPosition
                   /\ ux'.ts = uTick'.ts
                   /\ ux'.outcome \in {"win", "loss"}
                   /\ ux'.outcome = "win"
                         => /\ ux'.price = active.target
                            /\ IF active.side = "long"
                               THEN uTick'.price >= active.target
                               ELSE uTick'.price <= active.target
                   /\ ux'.outcome = "loss"
                         => /\ ux'.price = active.stop
                            /\ IF active.side = "long"
                               THEN uTick'.price <= active.stop
                               ELSE uTick'.price >= active.stop
          /\ (upc = "x2" /\ upc' = "x3")
                => /\ active'.exit_price = ux.price
                   /\ active'.outcome = ux.outcome
                   /\ active'.closed_at = uTick.ts
                   /\ ux' = ux /\ uTick' = uTick
          /\ (upc = "x4") => active' = NoPosition ]_vars

\* a tick beyond the level closed the position at the level
C9_Witness ==
    /\ upc = "x3"
    /\ active # NoPosition
    /\ active.exit_price = ux.price
    /\ active.closed_at = uTick.ts
    /\ uTick.price # active.exit_price
    /\ active.exit_price \in {active.stop, active.target}

\* C10 as stated: after a live tick has closed the position, on_new_close for
\* the record that encloses the tick emits no exit event, opens no position
\* and leaves the engine idle.
C10_CloseAfterTickNoOp ==
    [][ (PollStep /\ spc = "dispatch" /\ tickClosedAt = curC.time)
          => /\ active' = NoPosition
             /\ exitRows' <= exitRows
             /\ spc' \notin {"manage", "logentry"} ]_vars

\* C10: after a live tick has closed the position, on_new_close for the record
\* that encloses the tick runs no management check and emits no exit event; it
\* leaves the engine idle unless the record itself satisfies the entry
\* conditions (levels set, record at or after the reference time), and then it
\* opens a new position on that record.
C10_CloseAfterTickNoExit ==
    [][ (PollStep /\ spc = "dispatch" /\ tickClosedAt = curC.time)
          => /\ active = NoPosition
             /\ exitRows' <= exitRows
             /\ spc' # "manage"
             /\ IF LevelsSet /\ curC.time >= ref /\ EntrySignal(curC)
                THEN /\ active' # NoPosition
                     /\ active'.opened_at = curC.time
                     /\ active'.outcome = "none"
                     /\ spc' = "logentry"
                ELSE /\ active' = NoPosition
                     /\ spc' \in {"dispatch", "idle"} ]_vars

\* the record enclosing the closing tick has been handled and left the engine
\* idle
C10_Witness ==
    /\ spc = "dispatch"
    /\ scall = 2
    /\ tickClosedAt = curC.time
    /\ active = NoPosition
    /\ ~EntrySignal(curC)

\* C22: a position is opened only when both reference levels are set and the
\* record's timestamp is at or after the reference time: every open position
\* has opened_at >= ref_utc and both levels are set.
C22_EntryGuards ==
    active # NoPosition
       => /\ active.opened_at >= ref
          /\ blue_high # NoLevel
          /\ blue_low # NoLevel

\* a position was opened on the record of the reference minute
C22_Witness ==
    /\ active # NoPosition
    /\ active.opened_at = ref
    /\ LevelsSet
    /\ lastClose = ref

\* C23 as stated: when idle and past the guards, a record whose open alone
\* satisfies an entry condition opens the position in the direction the open
\* crossed, at the open, with basis OPEN; a close-based entry is taken only
\* when the open satisfies neither condition.
C23_OpenTakesPrecedence ==
    [][ (PollStep /\ spc = "dispatch" /\ active = NoPosition /\ LevelsSet
           /\ curC.time >= ref)
          => /\ (curC.open > blue_high)
                   => /\ active' # NoPosition
                      /\ active'.side = "long"
                      /\ active'.entry = curC.open
                      /\ sNote' = "OPEN"
             /\ (curC.open < blue_low)
                   => /\ active' # NoPosition
                      /\ active'.side = "short"
                      /\ active'.entry = curC.open
                      /\ sNote' = "OPEN"
             /\ (sNote' = "CLOSE")
                   => ~(curC.open > blue_high) /\ ~(curC.open < blue_low) ]_vars

\* the exit price lies on the target side / on the stop side of p's entry
TargetSide(p, price) ==
    IF p.side = "long" THEN price > p.entry ELSE price < p.entry
StopSide(p, price) ==
    IF p.side = "long" THEN price < p.entry ELSE price > p.entry

\* C24 as stated: every exit, from on_new_close or from on_live_price, writes
\* exit price, exit timestamp and outcome to the position, the outcome being
\* win exactly when the exit price is on the target side of the entry and loss
\* exactly when it is on the stop side, and the exit ends with no open
\* position.
C24_ExitRecorded ==
    [][ /\ ((spc = "x2" /\ spc' = "x3") \/ (upc = "x2" /\ upc' = "x3"))
           => /\ active'.exit_price # NoPrice
              /\ active'.closed_at # NoTime
              /\ active'.outcome \in {"win", "loss"}
              /\ active'.outcome = "win" <=> TargetSide(active, active'.exit_price)
              /\ active'.outcome = "loss" <=> StopSide(active, active'.exit_price)
        /\ ((spc = "x4" /\ spc' # "x4") \/ (upc = "x4" /\ upc' # "x4"))
           => active' = NoPosition ]_vars

\* C28 as stated: the poll loop invokes on_new_close once for a newly closed
\* record, never a second time.
C28_DeliveredOnce == ~(spc = "dispatch" /\ scall = 2)

\* C34 (strategies.py:181-191, 242-259; ui_chart.py:186-193): the position
\* overlay is shown only while a position is active: whenever the engine is
\* idle (no position) and no handler is running on either thread, the
\* overlay is cleared, for every interleaving of an entry on the poll thread
\* with a live-tick exit on the UI thread.
C34_OverlayOnlyWhileActive ==
    (~IsActive(active) /\ spc = "idle" /\ upc = "idle") => pos_entry = NoPrice

\* C35 as stated: the record that opened a position is not the record a
\* management check of that position runs on: the check always runs on a
\* record with a timestamp later than the position's opened_at.
C35_NotManagedByOpeningRecord ==
    (spc = "manage" /\ active # NoPosition) => curC.time > active.opened_at

\* C36 as stated: every exit price written to a position, by on_new_close or
\* by on_live_price, is the stop or the target of that position.
C36_ExitPriceOfOwnPosition ==
    [][ ((spc = "x2" /\ spc' = "x3") \/ (upc = "x2" /\ upc' = "x3"))
          => active'.exit_price \in {active.stop, active.target} ]_vars

\* the price is strictly between the stop and the target of position p
StrictlyInside(p, price) ==
    IF p.side = "long" THEN p.stop < price /\ price < p.target
    ELSE p.target < price /\ price < p.stop

\* the record's range touches neither the stop nor the target of position p
TouchesNeither(p, c) ==
    IF p.side = "long" THEN c.low > p.stop /\ c.high < p.target
    ELSE c.high < p.stop /\ c.low > p.target

\* C40: events that touch neither level change nothing: on_live_price begins
\* an exit only with a position active and a tick at or beyond its stop or
\* target, the management check of a record whose range touches neither level
\* returns without an exit, and both leave the position, the levels and the
\* journal as they were.
C40_UntouchedNoChange ==
    [][ /\ (UiStep /\ upc = "idle")
           => /\ active # NoPosition
              /\ ~StrictlyInside(active, uTick'.price)
              /\ active' = active
        /\ (PollStep /\ spc = "manage" /\ active # NoPosition
               /\ TouchesNeither(active, curC))
           => /\ spc' \in {"dispatch", "idle"}
              /\ sx' = NoExit
              /\ active' = active
              /\ exitRows' = exitRows
        /\ ((UiStep /\ upc = "idle") \/ (PollStep /\ spc = "manage"))
           => UNCHANGED <<blue_high, blue_low>> ]_vars

\* a position opened on an earlier record is still open, untouched, after a
\* later record has been put through the management check
C40_Witness ==
    /\ active # NoPosition
    /\ active.outcome = "none"
    /\ spc = "idle"
    /\ upc = "idle"
    /\ lastClose > active.opened_at
    /\ exitRows = 0

-----------------------------------------------------------------------------
(* Properties of the renderer's snapshot (SpecSnap) *)

\* C26 as stated: a snapshot taken while a record is being appended returns
\* five sequences of equal length in which position i of every sequence
\* belongs to the same stored record.
C26_SnapshotAligned ==
    snOut # NoSnapshot
       => \A k \in 1..Len(snOut) :
             /\ Len(snOut[k]) = Len(snOut[1])
             /\ \A i \in 1..Len(snOut[1]) : snOut[k][i] = snOut[1][i]

-----------------------------------------------------------------------------
(* Properties of shutdown (SpecStop, SpecStopFair) *)

\* C29: shutdown is idempotent and non-blocking: however often on_close is
\* invoked the stop sequence is begun at most once, an invocation made after
\* the first changes nothing and returns at once, and every invocation
\* returns, whether or not the loops have exited.
C29_ShutdownIdempotent ==
    /\ [](stopRuns <= 1)
    /\ [][ (closing /\ closeCalls' > closeCalls)
             => /\ opc' = "idle"
                /\ UNCHANGED <<closing, stopEvent, stopRuns, wsRunning, wsConn>> ]_vars
    /\ [](opc # "idle" => <>(opc = "idle"))

\* on_close was invoked a second time and returned, with the poll loop
\* already exited and the verify loop not
C29_Witness ==
    /\ closeCalls >= 2
    /\ stopRuns = 1
    /\ closing
    /\ opc = "idle"
    /\ plpc = "exited"
    /\ vlpc # "exited"

\* C30 as stated, for the streaming loop: once KrakenWS.stop() has returned
\* no connection is open: none is left open and none is opened afterwards.
C30_NoConnectionAfterStop ==
    (closing /\ opc \notin {"wsflag", "wsclose"}) => wsConn # "open"

-----------------------------------------------------------------------------
(* Properties of KrakenWS under start() and stop() (SpecWs, SpecWsFair) *)

\* the connection of thread i has ended and its run_forever has returned or
\* is about to
Terminated(i) == kwLoop[i].pc \in {"block", "sleep"} /\ kwLoop[i].conn = "closed"

\* C31 (data.py:194-204, 254-273): while the subscription is running, every
\* end of a streaming connection is followed, unless stop() is called, by a
\* new WebSocketApp handed to run_forever, and every connection that opens
\* is subscribed to the trade and the ticker channel; this holds at every
\* reconnect, however many came before.
C31_ReconnectsWhileRunning ==
    /\ [](\A i \in LoopIds : kwLoop[i].conn = "open" => kwLoop[i].subs = Channels)
    /\ \A i \in LoopIds :
          [](kwRunning /\ Terminated(i)
               => <>(~kwRunning \/ (kwLoop[i].pc = "run" /\ kwLoop[i].conn = "made")))

\* a thread's second or later connection is open and subscribed
C31_Witness ==
    \E i \in LoopIds : /\ kwRunning
                        /\ kwLoop[i].again
                        /\ kwLoop[i].conn = "open"
                        /\ kwLoop[i].subs = Channels

\* C39 (data.py:176-191, 254-273): for any sequence of start() and stop()
\* calls at most one streaming loop is alive: never do two threads hold an
\* open streaming connection at the same time.
C39_OneStreamingLoop ==
    Cardinality({i \in LoopIds : kwLoop[i].conn = "open"}) <= 1

-----------------------------------------------------------------------------
(* Property of KrakenClient._rate_limit (SpecRate) *)

\* C32 (data.py:55-66): any two requests sent through the one client start
\* at least min_interval apart, whichever threads send them.
C32_RequestsSpaced ==
    prevReq # NoTime => lastReq - prevReq >= MinInterval



=============================================================================
